---- MODULE Spec2Model ----
(***************************************************************************)
(* Model of the "Historical Court" workflow of 6630401240_myorder_hw_agents *)
(* (google.adk agents).  The three tools are translated from their Python   *)
(* bodies.  The agents are LLM agents: each step of an agent is a model     *)
(* call (retried per its retry_options) whose answer is either a call of    *)
(* one of the tools the agent holds or a final answer.  The composites are  *)
(* the google.adk classes the file instantiates:                            *)
(*   SequentialAgent  runs its sub_agents once each, in order;              *)
(*   ParallelAgent    runs its sub_agents as tasks of one event loop and    *)
(*                    returns when all have finished; an exception of one   *)
(*                    cancels the others and propagates;                    *)
(*   LoopAgent        repeats its sub_agents, stops when an event of a      *)
(*                    sub-agent carries actions.escalate or when            *)
(*                    max_iterations iterations are done.                   *)
(* An exception raised by a tool or by an exhausted model call propagates   *)
(* through every enclosing composite and ends the run.                      *)
(***************************************************************************)
EXTENDS Integers, Sequences, FiniteSets, TLC

\* ---------------------------------------------------------------- bounds
MaxToolCalls == 2      \* tool calls one agent invocation may make
MaxItems == 2          \* longest list a key of the state store may reach

\* ------------------------------------------------------ program constants
max_iterations == 3    \* trial_and_review, LoopAgent(max_iterations=3)
attempts == 2          \* retry_options={"initial_delay": 1, "attempts": 2}

\* ------------------------------------------------------------------ names
LeafAgents == {"inquiry_clerk", "admirer_researcher", "critic_researcher",
               "judge", "verdict_writer"}
Composites == {"investigation_team", "trial_and_review", "historical_court"}
Units == LeafAgents \cup Composites

Keys == {"TOPIC", "pos_data", "neg_data"}
\* the strings a researcher may pass as response, verdict_writer as content
Responses == {"r1", "r2"}
\* the user's response, which inquiry_clerk passes as response
Topics == {"t1"}

\* what agent a may pass to append_to_state as response
ResponsesOf(a) == IF a = "inquiry_clerk" THEN Topics ELSE Responses

\* the judge holding write_file as well
ToolsJudgeWrites(a) ==
  CASE a = "inquiry_clerk"      -> {"append_to_state"}
    [] a = "admirer_researcher" -> {"wikipedia", "append_to_state"}
    [] a = "critic_researcher"  -> {"wikipedia", "append_to_state"}
    [] a = "judge"              -> {"exit_loop", "write_file"}
    [] a = "verdict_writer"     -> {"write_file"}
    [] OTHER                    -> {}

\* tools=[...] of each Agent(...)
Tools(a) ==
  CASE a = "inquiry_clerk"      -> {"append_to_state"}
    [] a = "admirer_researcher" -> {"wikipedia", "append_to_state"}
    [] a = "critic_researcher"  -> {"wikipedia", "append_to_state"}
    [] a = "judge"              -> {"exit_loop"}
    [] a = "verdict_writer"     -> {"write_file"}
    [] OTHER                    -> {}

\* the state key each instruction tells its agent to append to
Field(a) ==
  CASE a = "inquiry_clerk"      -> "TOPIC"
    [] a = "admirer_researcher" -> "pos_data"
    [] a = "critic_researcher"  -> "neg_data"
    [] OTHER                    -> "none"

\* the team with one researcher only
investigation_team_of_one == {"admirer_researcher"}

\* sub_agents=[admirer_researcher, critic_researcher]
investigation_team == {"admirer_researcher", "critic_researcher"}

\* ------------------------------------------------------------ state store
\* A value of the store: absent, a str, or a list of str.
Absent == [kind |-> "absent", items |-> <<>>]
Str(s) == [kind |-> "str", items |-> <<s>>]
List(q) == [kind |-> "list", items |-> q]

\* the stored list ignored: tool_context.state.get(field, []) taken as []
StateGetDefault(st, field) == List(<<>>)

\* tool_context.state.get(field, [])
StateGet(st, field) == IF st[field].kind = "absent" THEN List(<<>>) ELSE st[field]

\* the operands swapped: [response] + existing_state
ConcatPrepend(existing, response) ==
  IF existing.kind = "list"
    THEN [ok |-> TRUE, value |-> List(<<response>> \o existing.items)]
    ELSE [ok |-> FALSE, value |-> existing]

\* the response stored in place of the list: [response]
ConcatReplace(existing, response) ==
  IF existing.kind = "list"
    THEN [ok |-> TRUE, value |-> List(<<response>>)]
    ELSE [ok |-> FALSE, value |-> existing]

\* existing_state + [response]: list + list concatenates, str + list raises
Concat(existing, response) ==
  IF existing.kind = "list"
    THEN [ok |-> TRUE, value |-> List(Append(existing.items, response))]
    ELSE [ok |-> FALSE, value |-> existing]

\* the write-back replacing the whole store by the one key
append_to_state_replaces_store(st, field, response) ==
  LET existing_state == StateGet(st, field)
      sum == Concat(existing_state, response)
  IN  IF sum.ok
        THEN [ok |-> TRUE, status |-> "success",
              state |-> [k \in Keys |-> IF k = field THEN sum.value ELSE Absent]]
        ELSE [ok |-> FALSE, status |-> "none", state |-> st]

\* the first response stored as it is, later ones appended
append_to_state_sets_first(st, field, response) ==
  IF st[field].kind = "absent"
    THEN [ok |-> TRUE, status |-> "success",
          state |-> [st EXCEPT ![field] = Str(response)]]
    ELSE LET sum == Concat(st[field], response)
         IN  [ok |-> sum.ok, status |-> IF sum.ok THEN "success" ELSE "none",
              state |-> IF sum.ok THEN [st EXCEPT ![field] = sum.value] ELSE st]

\* append_to_state(tool_context, field, response); ok = FALSE: it raised;
\* status: the "status" of the dict it returns, "none" when it raised
append_to_state(st, field, response) ==
  LET existing_state == StateGet(st, field)
      sum == Concat(existing_state, response)
  IN  IF sum.ok
        THEN [ok |-> TRUE, status |-> "success",
              state |-> [st EXCEPT ![field] = sum.value]]
        ELSE [ok |-> FALSE, status |-> "none", state |-> st]

\* ------------------------------------------------------------ file system
\* A path is a sequence of characters; "/" separates its components.
Directories == {<<>>, <<"v">>}
Filenames == {<<"a">>, <<"a", "/", "b">>}

\* the last index of "/" in p, 0 when there is none
LastSlash(p) ==
  LET S == {i \in 1..Len(p) : p[i] = "/"}
  IN  IF S = {} THEN 0 ELSE CHOOSE i \in S : \A j \in S : j <= i

RECURSIVE RStripSlash(_)
RStripSlash(p) ==
  IF p # <<>> /\ p[Len(p)] = "/" THEN RStripSlash(SubSeq(p, 1, Len(p) - 1)) ELSE p

\* os.path.join(directory, filename)
Join(directory, filename) ==
  IF filename # <<>> /\ Head(filename) = "/" THEN filename
  ELSE IF directory = <<>> \/ directory[Len(directory)] = "/"
    THEN directory \o filename
    ELSE directory \o <<"/">> \o filename

\* os.path.dirname(p)
Dirname(p) ==
  LET head == SubSeq(p, 1, LastSlash(p))
  IN  IF head # <<>> /\ \E i \in 1..Len(head) : head[i] # "/"
        THEN RStripSlash(head) ELSE head

\* name and every ancestor directory of name
RECURSIVE Ancestors(_)
Ancestors(name) ==
  IF name = <<>> THEN {}
  ELSE {name} \cup (IF LastSlash(name) = 0 THEN {} ELSE Ancestors(Dirname(name)))

\* os.makedirs(name, exist_ok=True): FileNotFoundError on the empty name,
\* FileExistsError / NotADirectoryError when a component is a regular file
makedirs(fs, name) ==
  IF name = <<>> THEN [ok |-> FALSE, fs |-> fs]
  ELSE IF \E d \in Ancestors(name) : d \in DOMAIN fs.files
    THEN [ok |-> FALSE, fs |-> fs]
    ELSE [ok |-> TRUE, fs |-> [fs EXCEPT !.dirs = @ \cup Ancestors(name)]]

\* what the file at path p holds, <<>> when there is no such file
FileContent(fs, p) == IF p \in DOMAIN fs.files THEN fs.files[p] ELSE <<>>

\* the file opened with mode "a"
WriteContentAppend(old, content) == old \o <<content>>

\* f.write(content) on a file opened with mode "w": the file holds content only
WriteContent(old, content) == <<content>>

\* with open(target_path, "w") as f: f.write(content)
\* IsADirectoryError when the path names a directory
OpenWrite(fs, target_path, content) ==
  IF target_path \in fs.dirs \/ target_path = <<>> \/ target_path[Len(target_path)] = "/"
    THEN [ok |-> FALSE, fs |-> fs]
    ELSE LET old == FileContent(fs, target_path)
         IN  [ok |-> TRUE,
              fs |-> [fs EXCEPT !.files =
                        [p \in DOMAIN fs.files \cup {target_path} |->
                           IF p = target_path THEN WriteContent(old, content)
                           ELSE fs.files[p]]]]

\* write_file(tool_context, directory, filename, content); ok = FALSE: it raised;
\* status: the "status" of the dict it returns, "none" when it raised
write_file(fs, directory, filename, content) ==
  LET target_path == Join(directory, filename)
      made == makedirs(fs, Dirname(target_path))
      opened == OpenWrite(made.fs, target_path, content)
  IN  IF ~made.ok THEN [ok |-> FALSE, status |-> "none", fs |-> fs]
      ELSE IF ~opened.ok THEN [ok |-> FALSE, status |-> "none", fs |-> opened.fs]
      ELSE [ok |-> TRUE, status |-> "success", fs |-> opened.fs]

\* ------------------------------------------------------------------ state
VARIABLES
  state,          \* tool_context.state: the session's shared state store
  fs,             \* the file system write_file acts on: dirs and files
  st,             \* status of every unit: idle, running, done, failed, cancelled
  times_looped,   \* LoopAgent's count of finished iterations
  attempt,        \* per running agent: failed attempts of its current model call
  calls,          \* per running agent: tool calls made in its invocation
  started,        \* per unit: invocations started in the run
  completed,      \* per unit: invocations completed in the run
  tool_context,   \* the ToolContext object of the latest exit_loop call
  should_exit,    \* LoopAgent: an event of the running sub-agent escalated
  iterations,     \* iterations of trial_and_review started
  exit_iter,      \* the first iteration in which exit_loop was invoked, or 0
  failure,        \* the fatal failure that ended the run, if any
  appended,       \* per key: the responses passed to append_to_state, in order
  writers,        \* per key: the agents that appended to it
  writes,         \* the write_file calls of the run that returned
  last_write      \* the latest write_file call that returned, and what it replaced

vars == <<state, fs, st, times_looped, attempt, calls, started, completed,
          tool_context, should_exit, iterations, exit_iter, failure, appended,
          writers, writes, last_write>>

\* a ToolContext as the framework hands it to a tool: its event actions do
\* not escalate, and it has no attribute exit_loop
NewToolContext == [exit_loop |-> FALSE, actions |-> [escalate |-> FALSE]]

\* exit_loop(tool_context): tool_context.exit_loop = True
exit_loop(tc) == [tc EXCEPT !.exit_loop = TRUE]

NoWrite ==
  [by |-> "none", directory |-> <<>>, filename |-> <<>>, content |-> "none",
   replaced |-> <<>>]
NoFailure == [unit |-> "none", cause |-> "none", attempts |-> 0]

Init ==
  /\ state = [k \in Keys |-> Absent]
  /\ fs = [dirs |-> {}, files |-> <<>>]
  /\ st = [u \in Units |-> IF u = "inquiry_clerk" THEN "running" ELSE "idle"]
  /\ times_looped = 0
  /\ attempt = [a \in LeafAgents |-> 0]
  /\ calls = [a \in LeafAgents |-> 0]
  /\ started = [u \in Units |-> IF u = "inquiry_clerk" THEN 1 ELSE 0]
  /\ completed = [u \in Units |-> 0]
  /\ tool_context = NewToolContext
  /\ should_exit = FALSE
  /\ iterations = 0
  /\ exit_iter = 0
  /\ failure = NoFailure
  /\ appended = [k \in Keys |-> <<>>]
  /\ writers = [k \in Keys |-> {}]
  /\ writes = 0
  /\ last_write = NoWrite

\* ------------------------------------------------------------ unit helpers
\* units u enters running: a fresh invocation
Begin(s, U) == [u \in Units |-> IF u \in U THEN "running" ELSE s[u]]
Count(c, U) == [u \in Units |-> IF u \in U THEN c[u] + 1 ELSE c[u]]
Fresh(f, U) == [a \in LeafAgents |-> IF a \in U THEN 0 ELSE f[a]]

\* the exception swallowed by the task: only the unit itself is marked failed
UnwindSelfOnly(s, a) == [s EXCEPT ![a] = "failed"]

\* The exception of unit a unwinds the run: every running composite fails and
\* every other running agent (a sibling task of a ParallelAgent) is cancelled.
Unwind(s, a) ==
  [u \in Units |->
     IF u = a THEN "failed"
     ELSE IF s[u] = "running" /\ u \in Composites THEN "failed"
     ELSE IF s[u] = "running" /\ u \in LeafAgents THEN "cancelled"
     ELSE s[u]]

\* inquiry_clerk stores the one response of the user; the other agents may
\* call their tools several times
MaxCalls(a) == IF a = "inquiry_clerk" THEN 1 ELSE MaxToolCalls

\* the loop's two states
LoopState ==
  IF st["trial_and_review"] = "running" THEN "ITERATING"
  ELSE IF st["trial_and_review"] = "idle" THEN "NOT_STARTED"
  ELSE "TERMINATED"

\* attempts read as the number of retries after the first request
ExhaustedLate(n) == n + 1 > attempts

\* Gemini(retry_options={"attempts": 2}): attempts counts the first request;
\* n failed attempts so far, one more failure: retry, or give up
Exhausted(n) == n + 1 >= attempts

\* LoopAgent: if event.actions.escalate: should_exit = True
ShouldExit(seen, actions) == seen \/ actions.escalate

\* the loop giving up one iteration early
LoopContinuesShort(n) == n < max_iterations - 1

\* the loop bound read as inclusive
LoopContinuesInclusive(n) == n <= max_iterations

\* LoopAgent: while times_looped < max_iterations
LoopContinues(n) == n < max_iterations

\* ---------------------------------------------------------------- actions
\* a model call of agent a fails: retried up to attempts, then fatal
ModelFail(a) ==
  /\ st[a] = "running"
  /\ IF Exhausted(attempt[a])
       THEN /\ st' = Unwind(st, a)
            /\ failure' = [unit |-> a, cause |-> "model", attempts |-> attempt[a] + 1]
            /\ attempt' = Fresh(attempt, LeafAgents)
            /\ calls' = Fresh(calls, LeafAgents)
       ELSE /\ attempt' = [attempt EXCEPT ![a] = @ + 1]
            /\ UNCHANGED <<st, failure, calls>>
  /\ UNCHANGED <<state, fs, times_looped, started, completed, tool_context,
                 should_exit, iterations, exit_iter, appended, writers, writes, last_write>>

\* agent a, which holds append_to_state, calls it with field and response
AppendField(a, field, response) ==
  /\ st[a] = "running"
  /\ "append_to_state" \in Tools(a)
  /\ calls[a] < MaxCalls(a)
  /\ field \in Keys
  /\ Len(state[field].items) < MaxItems
  /\ LET r == append_to_state(state, field, response)
     IN  /\ r.ok
         /\ state' = r.state
  /\ appended' = [appended EXCEPT ![field] = Append(@, response)]
  /\ writers' = [writers EXCEPT ![field] = @ \cup {a}]
  /\ calls' = [calls EXCEPT ![a] = @ + 1]
  /\ attempt' = [attempt EXCEPT ![a] = 0]
  /\ UNCHANGED <<fs, st, times_looped, started, completed, tool_context,
                 should_exit, iterations, exit_iter, failure, writes, last_write>>

\* agent a stores response in the field its instruction names
AppendToState(a, response) == AppendField(a, Field(a), response)

\* inquiry_clerk transferring without having stored the topic
RootTransferUnseeded ==
  /\ st["inquiry_clerk"] = "running"
  /\ st["historical_court"] = "idle"
  /\ st' = [Begin(st, {"historical_court", "trial_and_review"})
              EXCEPT !["inquiry_clerk"] = "delegated"]
  /\ started' = Count(started, {"historical_court", "trial_and_review"})
  /\ times_looped' = 0
  /\ attempt' = [attempt EXCEPT !["inquiry_clerk"] = 0]
  /\ calls' = [calls EXCEPT !["inquiry_clerk"] = 0]
  /\ UNCHANGED <<state, fs, completed, tool_context, should_exit,
                 iterations, exit_iter, failure, appended, writers, writes, last_write>>

\* inquiry_clerk transfers to historical_court, whose first sub-agent is the loop
RootTransfer ==
  /\ st["inquiry_clerk"] = "running"
  /\ state[Field("inquiry_clerk")].kind # "absent"
  /\ st["historical_court"] = "idle"
  /\ st' = [Begin(st, {"historical_court", "trial_and_review"})
              EXCEPT !["inquiry_clerk"] = "delegated"]
  /\ started' = Count(started, {"historical_court", "trial_and_review"})
  /\ times_looped' = 0
  /\ attempt' = [attempt EXCEPT !["inquiry_clerk"] = 0]
  /\ calls' = [calls EXCEPT !["inquiry_clerk"] = 0]
  /\ UNCHANGED <<state, fs, completed, tool_context, should_exit,
                 iterations, exit_iter, failure, appended, writers, writes, last_write>>

\* trial_and_review starts an iteration: investigation_team starts both researchers
StartIteration ==
  /\ st["trial_and_review"] = "running"
  /\ st["investigation_team"] = "idle"
  /\ LoopContinues(times_looped)
  /\ st' = Begin(st, {"investigation_team"} \cup investigation_team)
  /\ started' = Count(started, {"investigation_team"} \cup investigation_team)
  /\ attempt' = Fresh(attempt, investigation_team)
  /\ calls' = Fresh(calls, investigation_team)
  /\ iterations' = iterations + 1
  /\ should_exit' = FALSE
  /\ UNCHANGED <<state, fs, times_looped, completed, tool_context, exit_iter,
                 failure, appended, writers, writes, last_write>>

\* a researcher queries Wikipedia; the tool returns a result or raises
Wikipedia(a, raises) ==
  /\ a \in investigation_team
  /\ st[a] = "running"
  /\ "wikipedia" \in Tools(a)
  /\ calls[a] < MaxToolCalls
  /\ IF raises
       THEN /\ st' = Unwind(st, a)
            /\ failure' = [unit |-> a, cause |-> "tool", attempts |-> 1]
            /\ attempt' = Fresh(attempt, LeafAgents)
            /\ calls' = Fresh(calls, LeafAgents)
       ELSE /\ calls' = [calls EXCEPT ![a] = @ + 1]
            /\ attempt' = [attempt EXCEPT ![a] = 0]
            /\ UNCHANGED <<st, failure>>
  /\ UNCHANGED <<state, fs, times_looped, started, completed, tool_context,
                 should_exit, iterations, exit_iter, appended, writers, writes, last_write>>

\* a researcher gives its final summary
ResearcherFinish(a) ==
  /\ a \in investigation_team
  /\ st[a] = "running"
  /\ st' = [st EXCEPT ![a] = "done"]
  /\ completed' = Count(completed, {a})
  /\ attempt' = [attempt EXCEPT ![a] = 0]
  /\ calls' = [calls EXCEPT ![a] = 0]
  /\ UNCHANGED <<state, fs, times_looped, started, tool_context,
                 should_exit, iterations, exit_iter, failure, appended, writers, writes, last_write>>

\* the team returning with its first finished sub-agent
AnyFinished(s, U) == \E a \in U : s[a] = "done"

\* ParallelAgent: every sub-agent task has finished
AllFinished(s, U) == \A a \in U : s[a] = "done"

\* investigation_team returns to the loop, which runs its next sub-agent, judge
TeamReturn ==
  /\ st["trial_and_review"] = "running"
  /\ st["investigation_team"] = "running"
  /\ AllFinished(st, investigation_team)
  /\ completed' = Count(completed, {"investigation_team"})
  /\ IF should_exit
       THEN /\ st' = [st EXCEPT !["investigation_team"] = "done",
                                !["trial_and_review"] = "done"]
            /\ UNCHANGED <<started, attempt, calls>>
       ELSE /\ st' = [st EXCEPT !["investigation_team"] = "done", !["judge"] = "running"]
            /\ started' = Count(started, {"judge"})
            /\ attempt' = Fresh(attempt, {"judge"})
            /\ calls' = Fresh(calls, {"judge"})
  /\ UNCHANGED <<state, fs, times_looped, tool_context, should_exit, iterations,
                 exit_iter, failure, appended, writers, writes, last_write>>

\* agent a, which holds exit_loop, invokes it; the loop sees the event's actions
ExitLoop(a) ==
  /\ st[a] = "running"
  /\ "exit_loop" \in Tools(a)
  /\ calls[a] < MaxToolCalls
  /\ LET tc == exit_loop(NewToolContext)
     IN  /\ tool_context' = tc
         /\ should_exit' = ShouldExit(should_exit, tc.actions)
  /\ exit_iter' = IF exit_iter = 0 THEN iterations ELSE exit_iter
  /\ calls' = [calls EXCEPT ![a] = @ + 1]
  /\ attempt' = [attempt EXCEPT ![a] = 0]
  /\ UNCHANGED <<state, fs, st, times_looped, started, completed, iterations,
                 failure, appended, writers, writes, last_write>>

\* the judge saving its final answer into the store (an output key)
JudgeFinishStoresSummary ==
  /\ st["judge"] = "running"
  /\ st' = [st EXCEPT !["judge"] = "done"]
  /\ completed' = Count(completed, {"judge"})
  /\ attempt' = [attempt EXCEPT !["judge"] = 0]
  /\ calls' = [calls EXCEPT !["judge"] = 0]
  /\ state' = [state EXCEPT !["neg_data"] = List(<<"r1">>)]
  /\ UNCHANGED <<fs, times_looped, started, tool_context, should_exit,
                 iterations, exit_iter, failure, appended, writers, writes, last_write>>

\* the judge gives its final answer
JudgeFinish ==
  /\ st["judge"] = "running"
  /\ st' = [st EXCEPT !["judge"] = "done"]
  /\ completed' = Count(completed, {"judge"})
  /\ attempt' = [attempt EXCEPT !["judge"] = 0]
  /\ calls' = [calls EXCEPT !["judge"] = 0]
  /\ UNCHANGED <<state, fs, times_looped, started, tool_context, should_exit,
                 iterations, exit_iter, failure, appended, writers, writes, last_write>>

\* trial_and_review after its last sub-agent: exit, or count the iteration and
\* go on while times_looped < max_iterations
LoopStep ==
  /\ st["trial_and_review"] = "running"
  /\ st["judge"] = "done"
  /\ IF should_exit
       THEN /\ st' = [st EXCEPT !["trial_and_review"] = "done"]
            /\ completed' = Count(completed, {"trial_and_review"})
            /\ UNCHANGED times_looped
       ELSE /\ times_looped' = times_looped + 1
            /\ IF LoopContinues(times_looped + 1)
                 THEN /\ st' = [u \in Units |->
                                  IF u \in {"investigation_team", "judge"} \cup investigation_team
                                    THEN "idle" ELSE st[u]]
                      /\ UNCHANGED completed
                 ELSE /\ st' = [st EXCEPT !["trial_and_review"] = "done"]
                      /\ completed' = Count(completed, {"trial_and_review"})
  /\ UNCHANGED <<state, fs, attempt, calls, started, tool_context, should_exit,
                 iterations, exit_iter, failure, appended, writers, writes, last_write>>

\* the next sub-agent running as soon as the previous one has started
ProceedsEarly(s, prev) == s["historical_court"] = "running" /\ s[prev] # "idle"

\* SequentialAgent: the next sub-agent runs once the previous one returned
Proceeds(s, prev) == s["historical_court"] = "running" /\ s[prev] = "done"

\* historical_court runs its second sub-agent, verdict_writer
VerdictStart ==
  /\ Proceeds(st, "trial_and_review")
  /\ st["verdict_writer"] = "idle"
  /\ st' = Begin(st, {"verdict_writer"})
  /\ started' = Count(started, {"verdict_writer"})
  /\ attempt' = Fresh(attempt, {"verdict_writer"})
  /\ calls' = Fresh(calls, {"verdict_writer"})
  /\ UNCHANGED <<state, fs, times_looped, completed, tool_context, should_exit,
                 iterations, exit_iter, failure, appended, writers, writes, last_write>>

\* agent a, which holds write_file, invokes it; an exception of the tool is fatal
WriteFile(a, directory, filename, content) ==
  /\ st[a] = "running"
  /\ "write_file" \in Tools(a)
  /\ calls[a] < MaxToolCalls
  /\ LET r == write_file(fs, directory, filename, content)
     IN  /\ fs' = r.fs
         /\ IF r.ok
              THEN /\ last_write' = [by |-> a, directory |-> directory,
                                      filename |-> filename, content |-> content,
                                      replaced |-> FileContent(fs, Join(directory, filename))]
                   /\ writes' = writes + 1
                   /\ calls' = [calls EXCEPT ![a] = @ + 1]
                   /\ attempt' = [attempt EXCEPT ![a] = 0]
                   /\ UNCHANGED <<st, failure>>
              ELSE /\ st' = Unwind(st, a)
                   /\ failure' = [unit |-> a, cause |-> "tool", attempts |-> 1]
                   /\ attempt' = Fresh(attempt, LeafAgents)
                   /\ calls' = Fresh(calls, LeafAgents)
                   /\ UNCHANGED <<writes, last_write>>
  /\ UNCHANGED <<state, times_looped, started, completed, tool_context, should_exit,
                 iterations, exit_iter, appended, writers>>

\* verdict_writer gives its final answer; historical_court has run all sub-agents
VerdictFinish ==
  /\ st["verdict_writer"] = "running"
  /\ st' = [st EXCEPT !["verdict_writer"] = "done", !["historical_court"] = "done"]
  /\ completed' = Count(completed, {"verdict_writer", "historical_court"})
  /\ attempt' = [attempt EXCEPT !["verdict_writer"] = 0]
  /\ calls' = [calls EXCEPT !["verdict_writer"] = 0]
  /\ UNCHANGED <<state, fs, times_looped, started, tool_context, should_exit,
                 iterations, exit_iter, failure, appended, writers, writes, last_write>>

Next ==
  \/ \E a \in LeafAgents : ModelFail(a)
  \/ \E a \in LeafAgents : \E r \in ResponsesOf(a) : AppendToState(a, r)
  \/ RootTransfer
  \/ StartIteration
  \/ \E a \in investigation_team, raises \in BOOLEAN : Wikipedia(a, raises)
  \/ \E a \in investigation_team : ResearcherFinish(a)
  \/ TeamReturn
  \/ \E a \in LeafAgents : ExitLoop(a)
  \/ JudgeFinish
  \/ LoopStep
  \/ VerdictStart
  \/ \E a \in LeafAgents, d \in Directories, f \in Filenames, c \in Responses :
       WriteFile(a, d, f, c)
  \/ VerdictFinish

Spec == Init /\ [][Next]_vars

\* The runner keeps running the agents: a step that can be taken is taken.
FairSpec == Spec /\ WF_vars(Next)

\* The field is an argument the agent chooses: critic_researcher may pass
\* admirer_researcher's key, so that both append to the same key in one
\* parallel step.
AppendAnyField ==
  \E r \in Responses : AppendField("critic_researcher", "pos_data", r)

NextAnyField == Next \/ AppendAnyField

SpecAnyField == Init /\ [][NextAnyField]_vars

\* ------------------------------------------------------------- properties
Researchers == investigation_team
DataKeys == {"pos_data", "neg_data"}

IsPrefix(p, q) == Len(p) <= Len(q) /\ SubSeq(q, 1, Len(p)) = p
Occurrences(q, x) == Cardinality({i \in 1..Len(q) : q[i] = x})

\* C1: trial_and_review starts at most max_iterations = 3 iterations, whether
\* or not exit_loop was invoked, so each researcher and the judge is started at
\* most 3 times in a run.
C1_AtMostMaxIterations ==
  /\ iterations <= max_iterations
  /\ \A a \in Researchers \cup {"judge"} : started[a] <= max_iterations

\* a run that started the third iteration after exit_loop had been invoked
C1_Witness ==
  /\ iterations = max_iterations
  /\ started["judge"] = max_iterations
  /\ exit_iter # 0

\* C2: if exit_loop is invoked during iteration k, iteration k+1 never starts,
\* and the loop is TERMINATED once the judge of iteration k has returned.
C2_ExitEndsLoop ==
  exit_iter # 0 => iterations <= exit_iter

\* C3: investigation_team returns only after both researchers have finished: the
\* judge never runs, and the team is never over, while a researcher is running.
C3_JudgeAfterBothResearchers ==
  /\ st["judge"] = "running" => \A a \in Researchers : st[a] = "done"
  /\ st["investigation_team"] = "done" => \A a \in Researchers : st[a] = "done"
  /\ st["investigation_team"] = "failed" => \A a \in Researchers : st[a] # "running"
  /\ started["judge"] <= completed["investigation_team"]

\* the judge of the second iteration running after both researchers finished
C3_Witness ==
  /\ st["judge"] = "running"
  /\ iterations = 2
  /\ \A a \in Researchers : completed[a] = 2

\* C4: once a parallel step is over, every response the admirer appended to
\* pos_data and every response the critic appended to neg_data is in the store.
C4_NoLostUpdates ==
  st["investigation_team"] = "done" =>
    \A k \in DataKeys : \A x \in Responses :
      Occurrences(state[k].items, x) >= Occurrences(appended[k], x)

\* the first parallel step over, in which both researchers appended
C4_Witness ==
  /\ st["investigation_team"] = "done"
  /\ iterations = 1
  /\ \A k \in DataKeys : Len(appended[k]) >= 1 /\ state[k].items = appended[k]

\* C5: pos_data and neg_data, once present, stay present, and every value of
\* theirs is a prefix of every later value: entries are never removed,
\* reordered or changed, and the length never decreases.
C5_AppendOnly ==
  [][\A k \in DataKeys :
       /\ state[k].kind # "absent" => state'[k].kind = state[k].kind
       /\ IsPrefix(state[k].items, state'[k].items)]_vars

\* pos_data grown to two entries in the course of a later iteration
C5_Witness ==
  /\ iterations >= 2
  /\ st["admirer_researcher"] = "running"
  /\ calls["admirer_researcher"] = 1
  /\ Len(state["pos_data"].items) = 2
  /\ state["pos_data"].items[1] # state["pos_data"].items[2]

\* C6 as stated: a researcher whose Wikipedia tool fails ends the run after
\* exactly 2 attempts.
C6_ToolFailsAfterTwoAttempts ==
  (failure.unit \in Researchers /\ failure.cause = "tool") => failure.attempts = attempts

\* C6 amended: a researcher whose model call keeps failing ends the run after
\* exactly 2 attempts of that call; the Wikipedia tool is not retried, so a
\* failure it raises ends the run after 1 attempt.
C6_ModelFailsAfterTwoAttempts ==
  /\ \A a \in LeafAgents : attempt[a] < attempts
  /\ (failure.unit \in Researchers /\ failure.cause = "model") => failure.attempts = 2
  /\ (failure.unit \in Researchers /\ failure.cause = "tool") => failure.attempts = 1

\* a researcher's model call having failed for good
C6_Witness ==
  /\ failure.unit \in Researchers
  /\ failure.cause = "model"
  /\ st["investigation_team"] = "failed"

\* C7: only verdict_writer writes files: the file system changes only in a step
\* of verdict_writer, taken while no other agent runs, and a run in which a unit
\* before verdict_writer failed has written nothing.
C7_ReportOnlyByVerdictWriter ==
  /\ [](/\ last_write.by \in {"none", "verdict_writer"}
        /\ failure.unit \notin {"none", "verdict_writer"} =>
             writes = 0 /\ fs = [dirs |-> {}, files |-> <<>>])
  /\ [][fs' # fs =>
          /\ st["verdict_writer"] = "running"
          /\ \A a \in LeafAgents \ {"verdict_writer"} : st[a] # "running"]_vars

\* verdict_writer having written a report after the loop ended
C7_Witness ==
  /\ writes >= 1
  /\ last_write.by = "verdict_writer"
  /\ st["trial_and_review"] = "done"
  /\ DOMAIN fs.files # {}

\* C8: in a run without fatal failure trial_and_review runs once and is
\* TERMINATED before verdict_writer starts, verdict_writer runs once, and an
\* ended loop always lets verdict_writer start, also when it ended by exhaustion.
C8_LoopThenVerdictOnce ==
  /\ started["trial_and_review"] <= 1
  /\ started["verdict_writer"] <= 1
  /\ started["verdict_writer"] = 1 =>
       LoopState = "TERMINATED" /\ completed["trial_and_review"] = 1
  /\ (LoopState = "TERMINATED" /\ failure = NoFailure /\ started["verdict_writer"] = 0) =>
       ENABLED VerdictStart
  /\ st["historical_court"] = "done" =>
       /\ failure = NoFailure
       /\ completed["trial_and_review"] = 1
       /\ started["verdict_writer"] = 1
       /\ completed["verdict_writer"] = 1

\* a finished run whose loop ended by exhausting its 3 iterations
C8_Witness ==
  /\ st["historical_court"] = "done"
  /\ exit_iter = 0
  /\ times_looped = max_iterations

C10_TopicIsString ==
  /\ state["TOPIC"].kind \in {"absent", "str"}
  /\ \A k \in DataKeys : state[k].kind \in {"absent", "list"}

\* C10 amended: TOPIC, once stored, holds a sequence whose one element is the
\* topic string; pos_data and neg_data, when present, hold sequences of strings.
C10_TopicIsListOfString ==
  /\ \A k \in Keys :
       /\ state[k].kind \in {"absent", "list"}
       /\ state[k].kind = "absent" => state[k].items = <<>>
       /\ \A i \in 1..Len(state[k].items) : state[k].items[i] \in Responses \cup Topics
  /\ state["TOPIC"].kind = "list" =>
       Len(state["TOPIC"].items) = 1 /\ state["TOPIC"].items = appended["TOPIC"]
  /\ st["historical_court"] # "idle" => state["TOPIC"].kind = "list"

\* the topic and findings of both researchers in the store
C10_Witness ==
  /\ state["TOPIC"].kind = "list"
  /\ \A k \in DataKeys : state[k].kind = "list" /\ Len(state[k].items) >= 1

\* C11: for every directory, filename and content, write_file called by
\* verdict_writer ends by returning a status: the success status when the
\* content was written, a failure status when it was not.
C11_WriteFileReturnsStatus ==
  st["verdict_writer"] = "running" =>
    \A d \in Directories, f \in Filenames, c \in Responses :
      LET r == write_file(fs, d, f, c)
      IN  /\ r.status \in {"success", "failure"}
          /\ r.status = "success" <=> FileContent(r.fs, Join(d, f)) = <<c>>

\* C12: when both researchers append to the same key in one parallel step, in
\* whatever order their calls interleave, every response of both is in that
\* key's list once the step is over, in the order of the calls.
C12_SameKeyAppendsKept ==
  \A k \in DataKeys :
    /\ state[k].items = appended[k]
    /\ st["investigation_team"] = "done" =>
         \A x \in Responses :
           Occurrences(state[k].items, x) >= Occurrences(appended[k], x)

\* the first parallel step over, in which both researchers appended to pos_data
C12_Witness ==
  /\ st["investigation_team"] = "done"
  /\ iterations = 1
  /\ writers["pos_data"] = Researchers
  /\ Len(state["pos_data"].items) = 2
  /\ state["neg_data"].kind = "absent"

\* C13: in every state, append_to_state(field, response) returns the success
\* status and leaves, under field, [response] when field was absent and the
\* stored list followed by response otherwise, every other key unchanged; and
\* every step that changes the store is one such call.
C13_AppendResult ==
  /\ [](\A field \in Keys, response \in Responses \cup Topics :
          LET r == append_to_state(state, field, response)
          IN  /\ r.ok /\ r.status = "success"
              /\ r.state[field].kind = "list"
              /\ r.state[field].items = state[field].items \o <<response>>
              /\ state[field].kind = "absent" => r.state[field].items = <<response>>
              /\ \A k \in Keys \ {field} : r.state[k] = state[k])
  /\ [][state' # state =>
          \E field \in Keys, response \in Responses \cup Topics :
            /\ state'[field] = List(state[field].items \o <<response>>)
            /\ \A k \in Keys \ {field} : state'[k] = state[k]]_vars

\* a list that was absent, then [response], then two entries long
C13_Witness ==
  /\ Len(state["neg_data"].items) = 2
  /\ appended["neg_data"] = state["neg_data"].items
  /\ state["pos_data"].kind = "absent"
  /\ state["TOPIC"].items = <<"t1">>

LoopChildren == {"investigation_team", "judge"} \cup Researchers

\* C14: a call of exit_loop (the only tool call of the judge) sets the signal
\* the loop reads, and leaves the state store and the file system unchanged.
C14_ExitLoopOnlySetsSignal ==
  [][calls'["judge"] > calls["judge"] =>
       /\ should_exit'
       /\ state' = state
       /\ fs' = fs]_vars

\* C15: an iteration k < 3 that ends with no exit_loop invoked and no failure
\* leaves the loop ITERATING with iteration k+1 ready to start; the loop ends
\* without exit_loop and failure only after 3 iterations; in an iteration the
\* judge starts after investigation_team is over; and once the loop is
\* TERMINATED none of its children runs or is started again.
C15_LoopContinuation ==
  /\ [](/\ (st["trial_and_review"] = "running" /\ st["investigation_team"] = "idle") =>
             (times_looped < max_iterations /\ ENABLED StartIteration)
        /\ (st["trial_and_review"] = "done" /\ exit_iter = 0) =>
             (times_looped = max_iterations /\ iterations = max_iterations)
        /\ st["judge"] = "running" =>
             (st["investigation_team"] = "done"
                /\ started["judge"] = started["investigation_team"])
        /\ started["investigation_team"] = iterations
        /\ LoopState = "TERMINATED" => \A u \in LoopChildren : st[u] # "running")
  /\ [][LoopState = "TERMINATED" =>
          \A u \in LoopChildren : started'[u] = started[u] /\ st'[u] = st[u]]_vars

\* the second iteration running after a first one without exit_loop
C15_Witness ==
  /\ iterations = 2
  /\ exit_iter = 0
  /\ failure = NoFailure
  /\ st["investigation_team"] = "running"
  /\ completed["judge"] = 1

\* no unit is running: the verdict step is over or the run was aborted
RunOver == \A u \in Units : st[u] # "running"

\* C16: every run reaches a final state, the verdict step over or the run
\* aborted by a fatal failure, also when a researcher fails beside its sibling.
C16_RunTerminates ==
  <>[](/\ RunOver
       /\ st["historical_court"] = "done" \/ failure # NoFailure)

\* a run ended by one researcher's failure while the other was still running
C16_Witness ==
  /\ RunOver
  /\ st["admirer_researcher"] = "failed"
  /\ st["critic_researcher"] = "cancelled"
  /\ st["historical_court"] = "failed"

\* C17: no step taken while the judge runs changes the state store: TOPIC,
\* pos_data and neg_data are the same before and after every judge invocation,
\* and the only tool the judge holds is exit_loop.
C17_JudgeLeavesStore ==
  /\ [](Tools("judge") = {"exit_loop"})
  /\ [][(st["judge"] = "running" \/ st'["judge"] = "running") => state' = state]_vars

\* the judge over, having invoked exit_loop, with findings of both sides stored
C17_Witness ==
  /\ st["judge"] = "done"
  /\ exit_iter = iterations
  /\ \A k \in DataKeys : Len(state[k].items) >= 1 /\ state[k].items = appended[k]

C19_InvocationCounts ==
  /\ started["judge"] <= completed["admirer_researcher"]
  /\ started["judge"] <= completed["critic_researcher"]
  /\ started["admirer_researcher"] = started["critic_researcher"]
  /\ LoopState = "ITERATING" => started["verdict_writer"] = 0

\* the third judge running, each researcher having completed three times
C19_Witness ==
  /\ LoopState = "ITERATING"
  /\ started["judge"] = 3
  /\ completed["admirer_researcher"] = 3
  /\ completed["critic_researcher"] = 3

====
